---- MODULE Spec2Model ----
(***************************************************************************)
(* Model of the fitness-tracker module of hw_python_oop.  The repository   *)
(* holds two revisions of the same program: src/homework.py (definitions   *)
(* prefixed hw_) and the later, validated src/<U+0439>.py (definitions     *)
(* prefixed j_).  Each run of the model executes the entry-point loop of   *)
(* one revision over a batch of (workout_type, data) pairs.               *)
(*                                                                         *)
(* Numbers.  Python floats are modelled as exact rationals [n, d] in       *)
(* lowest terms with d > 0; the IEEE-754 rounding of each operation        *)
(* (relative error below 2^-52) is abstracted away.  A raised              *)
(* ZeroDivisionError is the value with d = 0, and every arithmetic         *)
(* operator passes it on, as an exception passes through an expression.    *)
(* Where the rounding error can decide an outcome (a value exactly midway  *)
(* between two printed decimals) the model allows both outcomes.           *)
(* Strings are sequences of Unicode code points.                           *)
(***************************************************************************)
EXTENDS Integers, Sequences, FiniteSets, TLC

VARIABLES rev, packages, i, training, info, stdout, exc, pc

vars == <<rev, packages, i, training, info, stdout, exc, pc>>

(***************************************************************************)
(* Bounds of the model and the input samples.                              *)
(***************************************************************************)
MaxBatch == 2

MaxDuration == 2

MaxLaps == 1

\* ------------------------------------------------------------------------
\* Python arithmetic on numbers (exact rationals)
\* ------------------------------------------------------------------------
Abs(x) == IF x < 0 THEN -x ELSE x

RECURSIVE GCD(_, _)
GCD(a, b) == IF b = 0 THEN a ELSE GCD(b, a % b)

ZeroDivisionError == [n |-> 0, d |-> 0]

IsRaise(x) == x.d = 0

Norm(n, d) ==
    LET g == GCD(Abs(n), Abs(d))
        s == IF d < 0 THEN -1 ELSE 1
    IN  [n |-> s * (n \div g), d |-> s * (d \div g)]

\* an int operand promoted to the rational it denotes
num(k) == [n |-> k, d |-> 1]

\* a decimal literal such as 0.65 == dec(65, 100)
dec(m, scale) == Norm(m, scale)

py_add(a, b) ==
    IF IsRaise(a) THEN a ELSE IF IsRaise(b) THEN b
    ELSE Norm(a.n * b.d + b.n * a.d, a.d * b.d)

py_sub(a, b) ==
    IF IsRaise(a) THEN a ELSE IF IsRaise(b) THEN b
    ELSE Norm(a.n * b.d - b.n * a.d, a.d * b.d)

\* the product of two fractions, common factors cancelled before multiplying
Times(an, ad, bn, bd) ==
    LET g1 == GCD(Abs(an), Abs(bd))
        g2 == GCD(Abs(bn), Abs(ad))
    IN  Norm((an \div g1) * (bn \div g2), (ad \div g2) * (bd \div g1))

py_mul(a, b) ==
    IF IsRaise(a) THEN a ELSE IF IsRaise(b) THEN b
    ELSE Times(a.n, a.d, b.n, b.d)

\* a / b: raises ZeroDivisionError when b is zero
py_truediv(a, b) ==
    IF IsRaise(a) THEN a ELSE IF IsRaise(b) THEN b
    ELSE IF b.n = 0 THEN ZeroDivisionError
    ELSE Times(a.n, a.d, b.d, b.n)

\* a // b: the floor of the quotient (\div rounds towards minus infinity),
\* raises ZeroDivisionError when b is zero
py_floordiv(a, b) ==
    IF IsRaise(a) THEN a ELSE IF IsRaise(b) THEN b
    ELSE IF b.n = 0 THEN ZeroDivisionError
    ELSE LET q == Times(a.n, a.d, b.d, b.n)
         IN  num(q.n \div q.d)

\* a ** 2
py_pow2(a) == py_mul(a, a)

\* ------------------------------------------------------------------------
\* Python string formatting
\* ------------------------------------------------------------------------
RECURSIVE Digits(_)
Digits(k) ==
    IF k < 10 THEN <<48 + k>>
    ELSE Append(Digits(k \div 10), 48 + (k % 10))

\* The numbers of thousandths |x| can round to.  The float is rounded to the
\* nearest thousandth; when the exact value lies midway between two of them
\* the float's own rounding error (or, if it has none, round-half-even)
\* decides, so both neighbours are possible outcomes.
Thousandths(x) ==
    LET a == Abs(x.n) * 1000
        q == a \div x.d
        r == a % x.d
    IN  IF 2 * r > x.d THEN {q + 1}
        ELSE IF 2 * r = x.d THEN {q, q + 1}
        ELSE {q}

\* sign, integer digits, '.', exactly three decimals
Render3(negative, t) ==
    (IF negative THEN <<45>> ELSE <<>>)
    \o Digits(t \div 1000) \o <<46>>
    \o <<48 + ((t % 1000) \div 100), 48 + ((t \div 10) % 10), 48 + (t % 10)>>

\* format(x, '.3f'): the strings it can produce
format_3f(x) == {Render3(x.n < 0, t) : t \in Thousandths(x)}

\* cls.__name__ as code points
class_name(cls) ==
    CASE cls = "Running" -> <<82, 117, 110, 110, 105, 110, 103>>
      [] cls = "SportsWalking" ->
            <<83, 112, 111, 114, 116, 115, 87, 97, 108, 107, 105, 110, 103>>
      [] cls = "Swimming" -> <<83, 119, 105, 109, 109, 105, 110, 103>>
      [] OTHER -> <<115, 116, 114>>

\* ------------------------------------------------------------------------
\* Exceptions and the values a call can leave behind
\* ------------------------------------------------------------------------
NoExc == [type |-> "None", msg |-> "", tag |-> "", nums |-> <<>>, where |-> ""]

Raise(type, msg, tag, nums, where) ==
    [type |-> type, msg |-> msg, tag |-> tag, nums |-> nums, where |-> where]

None == [cls |-> "NoneType"]

NoInfo ==
    [training_type |-> <<>>, duration |-> 0, distance |-> num(0),
     speed |-> num(0), calories |-> num(0)]

\* ========================================================================
\* Revision src/<U+0439>.py (dataclasses, validated read_package)
\* ========================================================================
j_M_IN_KM == 1000

j_MIN_IN_HOUR == 60

\* faulty variant: Swimming without its own LEN_STEP
j_LEN_STEP_shared(cls) == dec(65, 100)

\* class attribute lookup: Swimming overrides Training.LEN_STEP
j_LEN_STEP(cls) == IF cls = "Swimming" THEN dec(138, 100) ELSE dec(65, 100)

j_Running_SPEED_MULTIPLIER == 18

j_Running_SPEED_SHIFT == 20

j_WIGHT_MULTIPLIER_1 == dec(35, 1000)

j_WIGHT_MULTIPLIER_2 == dec(29, 1000)

j_Swimming_SPEED_MULTIPLIER == dec(11, 10)

j_Swimming_SPEED_SHIFT == 2

\* Training.get_distance: self.action * self.LEN_STEP / self.M_IN_KM
j_get_distance(t) ==
    py_truediv(py_mul(num(t.action), j_LEN_STEP(t.cls)), num(j_M_IN_KM))

\* Training.get_mean_speed: self.get_distance() / self.duration
j_Training_get_mean_speed(t) ==
    py_truediv(j_get_distance(t), num(t.duration))

\* faulty variant: Swimming without its own get_mean_speed
j_Swimming_get_mean_speed_inherited(t) == j_Training_get_mean_speed(t)

\* Swimming.get_mean_speed:
\* self.length_pool * self.count_pool / self.M_IN_KM / self.duration
j_Swimming_get_mean_speed(t) ==
    py_truediv(py_truediv(py_mul(num(t.length_pool), num(t.count_pool)),
                          num(j_M_IN_KM)),
               num(t.duration))

\* method resolution of self.get_mean_speed()
j_get_mean_speed(t) ==
    IF t.cls = "Swimming" THEN j_Swimming_get_mean_speed(t)
    ELSE j_Training_get_mean_speed(t)

\* Running.get_spent_calories
j_Running_get_spent_calories(t) ==
    py_mul(py_mul(py_truediv(py_mul(py_sub(py_mul(num(j_Running_SPEED_MULTIPLIER),
                                                   j_get_mean_speed(t)),
                                            num(j_Running_SPEED_SHIFT)),
                                     num(t.weight)),
                              num(j_M_IN_KM)),
                  num(t.duration)),
           num(j_MIN_IN_HOUR))

\* faulty variant: the quotient rounded to the nearest integer, round(a / b), in
\* place of the floor a // b
j_SportsWalking_get_spent_calories_rounded(t) ==
    py_mul(py_mul(py_add(py_mul(j_WIGHT_MULTIPLIER_1, num(t.weight)),
                         py_mul(py_mul(py_floordiv(
                                           py_add(py_truediv(
                                                      py_pow2(j_get_mean_speed(t)),
                                                      num(t.height)),
                                                  dec(1, 2)),
                                           num(1)),
                                       j_WIGHT_MULTIPLIER_2),
                                num(t.weight))),
                  num(t.duration)),
           num(j_MIN_IN_HOUR))

\* SportsWalking.get_spent_calories
j_SportsWalking_get_spent_calories(t) ==
    py_mul(py_mul(py_add(py_mul(j_WIGHT_MULTIPLIER_1, num(t.weight)),
                         py_mul(py_mul(py_floordiv(py_pow2(j_get_mean_speed(t)),
                                                   num(t.height)),
                                       j_WIGHT_MULTIPLIER_2),
                                num(t.weight))),
                  num(t.duration)),
           num(j_MIN_IN_HOUR))

\* Swimming.get_spent_calories
j_Swimming_get_spent_calories(t) ==
    py_mul(py_mul(py_add(j_get_mean_speed(t), j_Swimming_SPEED_MULTIPLIER),
                  num(j_Swimming_SPEED_SHIFT)),
           num(t.weight))

\* method resolution of self.get_spent_calories()
j_get_spent_calories(t) ==
    CASE t.cls = "Running" -> j_Running_get_spent_calories(t)
      [] t.cls = "SportsWalking" -> j_SportsWalking_get_spent_calories(t)
      [] t.cls = "Swimming" -> j_Swimming_get_spent_calories(t)

\* Training.show_training_info: the InfoMessage built from the record
j_show_training_info(t) ==
    [training_type |-> class_name(t.cls),
     duration |-> t.duration,
     distance |-> j_get_distance(t),
     speed |-> j_get_mean_speed(t),
     calories |-> j_get_spent_calories(t)]

\* the literal pieces of InfoMessage.MESSAGE between its placeholders
j_MESSAGE ==
    << <<1058, 1080, 1087, 32, 1090, 1088, 1077, 1085, 1080, 1088, 1086,
         1074, 1082, 1080, 58, 32>>,
       <<59, 32, 1044, 1083, 1080, 1090, 1077, 1083, 1100, 1085, 1086, 1089,
         1090, 1100, 58, 32>>,
       <<32, 1095, 46, 59, 32, 1044, 1080, 1089, 1090, 1072, 1085, 1094,
         1080, 1103, 58, 32>>,
       <<32, 1082, 1084, 59, 32, 1057, 1088, 46, 32, 1089, 1082, 1086, 1088,
         1086, 1089, 1090, 1100, 58, 32>>,
       <<32, 1082, 1084, 47, 1095, 59, 32, 1055, 1086, 1090, 1088, 1072,
         1095, 1077, 1085, 1086, 32, 1082, 1082, 1072, 1083, 58, 32>>,
       <<46>> >>

\* faulty variant: distance and speed passed in the wrong order
j_get_message_swapped(m) ==
    {j_MESSAGE[1] \o m.training_type
     \o j_MESSAGE[2] \o du
     \o j_MESSAGE[3] \o sp
     \o j_MESSAGE[4] \o di
     \o j_MESSAGE[5] \o ca
     \o j_MESSAGE[6] :
        du \in format_3f(num(m.duration)), di \in format_3f(m.distance),
        sp \in format_3f(m.speed), ca \in format_3f(m.calories)}

\* InfoMessage.get_message: MESSAGE.format(type, duration, distance, speed,
\* calories)
j_get_message(m) ==
    {j_MESSAGE[1] \o m.training_type
     \o j_MESSAGE[2] \o du
     \o j_MESSAGE[3] \o di
     \o j_MESSAGE[4] \o sp
     \o j_MESSAGE[5] \o ca
     \o j_MESSAGE[6] :
        du \in format_3f(num(m.duration)), di \in format_3f(m.distance),
        sp \in format_3f(m.speed), ca \in format_3f(m.calories)}

j_TRAINING_TYPES ==
    [SWM |-> "Swimming", RUN |-> "Running", WLK |-> "SportsWalking"]

\* faulty variant: the fields a subclass adds placed before the inherited ones
j_fields_subclass_first(cls) ==
    CASE cls = "Running" -> <<"action", "duration", "weight">>
      [] cls = "SportsWalking" -> <<"height", "action", "duration", "weight">>
      [] cls = "Swimming" ->
            <<"length_pool", "count_pool", "action", "duration", "weight">>

\* dataclasses.fields(cls): the instance fields in declaration order, base
\* class first; Running declares none and inherits Training's
j_fields(cls) ==
    CASE cls = "Running" -> <<"action", "duration", "weight">>
      [] cls = "SportsWalking" -> <<"action", "duration", "weight", "height">>
      [] cls = "Swimming" ->
            <<"action", "duration", "weight", "length_pool", "count_pool">>

\* training_type(*data): the generated __init__ binds data positionally
j_construct(cls, data) ==
    LET fs == j_fields(cls)
    IN  [f \in {"cls"} \cup {fs[k] : k \in 1..Len(fs)} |->
            IF f = "cls" THEN cls
            ELSE data[CHOOSE k \in 1..Len(fs) : fs[k] = f]]

\* faulty variant: a range check on the duration added to the validation
j_read_package_validating(workout_type, data) ==
    IF workout_type \notin DOMAIN j_TRAINING_TYPES
    THEN [exc |-> Raise("ValueError", "TRAINING_ERROR", workout_type, <<>>,
                        "read_package"),
          value |-> None]
    ELSE LET training_type == j_TRAINING_TYPES[workout_type]
         IN  IF Len(data) # Len(j_fields(training_type)) \/ data[2] <= 0
             THEN [exc |-> Raise("ValueError", "PARAMETER_ERROR", workout_type,
                                 <<Len(j_fields(training_type)), Len(data)>>,
                                 "read_package"),
                   value |-> None]
             ELSE [exc |-> NoExc, value |-> j_construct(training_type, data)]

\* read_package: [exc, value]
j_read_package(workout_type, data) ==
    IF workout_type \notin DOMAIN j_TRAINING_TYPES
    THEN [exc |-> Raise("ValueError", "TRAINING_ERROR", workout_type, <<>>,
                        "read_package"),
          value |-> None]
    ELSE LET training_type == j_TRAINING_TYPES[workout_type]
         IN  IF Len(data) # Len(j_fields(training_type))
             THEN [exc |-> Raise("ValueError", "PARAMETER_ERROR", workout_type,
                                 <<Len(j_fields(training_type)), Len(data)>>,
                                 "read_package"),
                   value |-> None]
             ELSE [exc |-> NoExc, value |-> j_construct(training_type, data)]

\* ========================================================================
\* Revision src/homework.py (explicit constructors, sentinel on unknown tag)
\* ========================================================================
hw_M_IN_KM == 1000

hw_MIN_IN_H == 60

\* class attribute lookup: Swimming overrides Training.LEN_STEP
hw_LEN_STEP(cls) == IF cls = "Swimming" THEN dec(138, 100) ELSE dec(65, 100)

hw_index_run_1 == 18

hw_index_run_2 == 20

hw_calorie_ratio_walk_1 == dec(35, 1000)

hw_calorie_ratio_walk_2 == dec(29, 1000)

hw_index_swim_1 == dec(11, 10)

hw_index_swim_2 == 2

\* Training.get_distance
hw_get_distance(t) ==
    LET distance == py_truediv(py_mul(num(t.action), hw_LEN_STEP(t.cls)),
                               num(hw_M_IN_KM))
    IN  distance

\* Training.get_mean_speed
hw_Training_get_mean_speed(t) ==
    LET speed == py_truediv(hw_get_distance(t), num(t.duration))
    IN  speed

\* Swimming.get_mean_speed
hw_Swimming_get_mean_speed(t) ==
    LET speed == py_truediv(py_truediv(py_mul(num(t.length_pool),
                                              num(t.count_pool)),
                                       num(hw_M_IN_KM)),
                            num(t.duration))
    IN  speed

\* method resolution of self.get_mean_speed()
hw_get_mean_speed(t) ==
    IF t.cls = "Swimming" THEN hw_Swimming_get_mean_speed(t)
    ELSE hw_Training_get_mean_speed(t)

\* faulty variant: the shift subtracted from the speed before the multiplication
hw_Running_get_spent_calories_shift_first(t) ==
    LET calc_1 == py_sub(hw_get_mean_speed(t), num(hw_index_run_2))
        calc_2 == py_mul(num(hw_index_run_1), calc_1)
        calories == py_mul(py_mul(py_truediv(py_mul(calc_2, num(t.weight)),
                                             num(hw_M_IN_KM)),
                                  num(t.duration)),
                           num(hw_MIN_IN_H))
    IN  calories

\* Running.get_spent_calories
hw_Running_get_spent_calories(t) ==
    LET calc_1 == py_mul(num(hw_index_run_1), hw_get_mean_speed(t))
        calc_2 == py_sub(calc_1, num(hw_index_run_2))
        calories == py_mul(py_mul(py_truediv(py_mul(calc_2, num(t.weight)),
                                             num(hw_M_IN_KM)),
                                  num(t.duration)),
                           num(hw_MIN_IN_H))
    IN  calories

\* SportsWalking.get_spent_calories
hw_SportsWalking_get_spent_calories(t) ==
    py_mul(py_mul(py_add(py_mul(hw_calorie_ratio_walk_1, num(t.weight)),
                         py_mul(py_mul(py_floordiv(py_pow2(hw_get_mean_speed(t)),
                                                   num(t.height)),
                                       hw_calorie_ratio_walk_2),
                                num(t.weight))),
                  num(t.duration)),
           num(hw_MIN_IN_H))

\* faulty variant: the two swimming coefficients exchanged
hw_Swimming_get_spent_calories_exchanged(t) ==
    LET calc_5 == py_add(hw_get_mean_speed(t), num(hw_index_swim_2))
        calories_2 == py_mul(py_mul(calc_5, hw_index_swim_1), num(t.weight))
    IN  calories_2

\* Swimming.get_spent_calories
hw_Swimming_get_spent_calories(t) ==
    LET calc_5 == py_add(hw_get_mean_speed(t), hw_index_swim_1)
        calories_2 == py_mul(py_mul(calc_5, num(hw_index_swim_2)),
                             num(t.weight))
    IN  calories_2

\* method resolution of self.get_spent_calories()
hw_get_spent_calories(t) ==
    CASE t.cls = "Running" -> hw_Running_get_spent_calories(t)
      [] t.cls = "SportsWalking" -> hw_SportsWalking_get_spent_calories(t)
      [] t.cls = "Swimming" -> hw_Swimming_get_spent_calories(t)

\* Training.show_training_info
hw_show_training_info(t) ==
    [training_type |-> class_name(t.cls),
     duration |-> t.duration,
     distance |-> hw_get_distance(t),
     speed |-> hw_get_mean_speed(t),
     calories |-> hw_get_spent_calories(t)]

\* InfoMessage.get_message: the f-string, literal pieces and fields in turn
hw_get_message(m) ==
    {<<1058, 1080, 1087, 32, 1090, 1088, 1077, 1085, 1080, 1088, 1086, 1074,
       1082, 1080, 58, 32>> \o m.training_type
     \o <<59, 32, 1044, 1083, 1080, 1090, 1077, 1083, 1100, 1085, 1086, 1089,
          1090, 1100, 58, 32>> \o du
     \o <<32, 1095, 46, 59, 32>>
     \o <<1044, 1080, 1089, 1090, 1072, 1085, 1094, 1080, 1103, 58, 32>> \o di
     \o <<32, 1082, 1084, 59, 32>>
     \o <<1057, 1088, 46, 32, 1089, 1082, 1086, 1088, 1086, 1089, 1090, 1100,
          58, 32>> \o sp
     \o <<32, 1082, 1084, 47, 1095, 59, 32>>
     \o <<1055, 1086, 1090, 1088, 1072, 1095, 1077, 1085, 1086, 32, 1082, 1082,
          1072, 1083, 58, 32>> \o ca
     \o <<46>> :
        du \in format_3f(num(m.duration)), di \in format_3f(m.distance),
        sp \in format_3f(m.speed), ca \in format_3f(m.calories)}

hw_dict_type ==
    [RUN |-> "Running", WLK |-> "SportsWalking", SWM |-> "Swimming"]

\* the positional parameters of cls.__init__ after self
hw_init_params(cls) ==
    CASE cls = "Running" -> <<"action", "duration", "weight">>
      [] cls = "SportsWalking" -> <<"action", "duration", "weight", "height">>
      [] cls = "Swimming" ->
            <<"action", "duration", "weight", "length_pool", "count_pool">>

\* cls(*data) once the call has bound its arguments: each __init__ stores
\* its parameters under their own names
hw_construct(cls, data) ==
    CASE cls = "Running" ->
            [cls |-> cls, action |-> data[1], duration |-> data[2],
             weight |-> data[3]]
      [] cls = "SportsWalking" ->
            [cls |-> cls, action |-> data[1], duration |-> data[2],
             weight |-> data[3], height |-> data[4]]
      [] cls = "Swimming" ->
            [cls |-> cls, action |-> data[1], duration |-> data[2],
             weight |-> data[3], length_pool |-> data[4],
             count_pool |-> data[5]]

\* the string read_package returns for an unknown tag
hw_sentinel ==
    [cls |-> "str", value |-> <<1054, 1096, 1080, 1073, 1082, 1072, 33>>]

\* read_package: [exc, value]; a call with the wrong number of arguments
\* raises TypeError before __init__ runs
hw_read_package(workout_type, data) ==
    IF workout_type \in DOMAIN hw_dict_type
    THEN LET cls == hw_dict_type[workout_type]
         IN  IF Len(data) # Len(hw_init_params(cls))
             THEN [exc |-> Raise("TypeError", "__init__", workout_type,
                                 <<Len(hw_init_params(cls)), Len(data)>>,
                                 "read_package"),
                   value |-> None]
             ELSE [exc |-> NoExc, value |-> hw_construct(cls, data)]
    ELSE [exc |-> NoExc, value |-> hw_sentinel]

\* ========================================================================
\* Inputs
\* ========================================================================
Tags == {"RUN", "WLK", "SWM", "XYZ"}

ActionVals == {0, 720, 9000, 15000, 20000}

DurationVals == 0..MaxDuration

WeightVals == {75, 80}

\* the fourth field: height (cm) or pool length (m)
FourthVals == {0, 25, 180}

\* the fifth field: pool laps
FifthVals == (0..MaxLaps) \cup {40}

DataLists ==
    {<<a, d>> : a \in ActionVals, d \in DurationVals}
    \cup {<<a, d, w>> : a \in ActionVals, d \in DurationVals, w \in WeightVals}
    \cup {<<a, d, w, h>> : a \in ActionVals, d \in DurationVals,
                           w \in WeightVals, h \in FourthVals}
    \cup {<<a, d, w, h, c>> : a \in ActionVals, d \in DurationVals,
                              w \in WeightVals, h \in FourthVals,
                              c \in FifthVals}

Pairs == {[tag |-> g, data |-> x] : g \in Tags, x \in DataLists}

\* the data lists batches are built from: the three packages of the entry
\* point, and one short, one zero-duration and one zero-height variation
BatchLists ==
    {<<720, 1, 80, 25, 40>>, <<15000, 1, 75>>, <<9000, 1, 75, 180>>,
     <<15000, 1>>, <<15000, 0, 75>>, <<9000, 1, 75, 0>>,
     <<720, 0, 80, 25, 40>>}

BatchPairs == {[tag |-> g, data |-> x] : g \in Tags, x \in BatchLists}

RECURSIVE SeqsUpTo(_, _)
SeqsUpTo(S, k) ==
    IF k = 0 THEN {<<>>}
    ELSE LET shorter == SeqsUpTo(S, k - 1)
         IN  shorter \cup {Append(q, e) : q \in shorter, e \in S}

Revisions == {"homework", "j"}

\* ========================================================================
\* The entry point: for workout_type, data in packages: main(read_package())
\* ========================================================================
InitWith(batches) ==
    /\ rev \in Revisions
    /\ packages \in batches
    /\ i = 0
    /\ training = None
    /\ info = NoInfo
    /\ stdout = <<>>
    /\ exc = NoExc
    /\ pc = "loop"

Init == InitWith(SeqsUpTo(BatchPairs, MaxBatch))

InitOne == InitWith({<<p>> : p \in Pairs})

\* faulty variant: the exception is recorded and the loop goes on
Abort_and_continue(e) ==
    /\ exc' = e
    /\ pc' = "loop"

\* an exception leaves the loop and ends the program
Abort(e) ==
    /\ exc' = e
    /\ pc' = "aborted"

\* an argument of the InfoMessage constructor raised
InfoRaised(m) ==
    IsRaise(m.distance) \/ IsRaise(m.speed) \/ IsRaise(m.calories)

\* the loop fetches the next pair and calls read_package on it
Call_j_read_package ==
    /\ rev = "j"
    /\ pc = "loop"
    /\ i < Len(packages)
    /\ i' = i + 1
    /\ LET r == j_read_package(packages[i + 1].tag, packages[i + 1].data)
       IN  IF r.exc # NoExc
           THEN Abort(r.exc) /\ UNCHANGED training
           ELSE training' = r.value /\ pc' = "main" /\ UNCHANGED exc
    /\ UNCHANGED <<rev, packages, info, stdout>>

\* main(training): print(training.show_training_info().get_message())
Call_j_main ==
    /\ rev = "j"
    /\ pc = "main"
    /\ LET m == j_show_training_info(training)
       IN  IF InfoRaised(m)
           THEN /\ Abort(Raise("ZeroDivisionError", "", "", <<>>, "main"))
                /\ UNCHANGED <<info, stdout>>
           ELSE /\ info' = m
                /\ \E line \in j_get_message(m) :
                      stdout' = Append(stdout, line)
                /\ pc' = "loop"
                /\ UNCHANGED exc
    /\ UNCHANGED <<rev, packages, i, training>>

Call_hw_read_package ==
    /\ rev = "homework"
    /\ pc = "loop"
    /\ i < Len(packages)
    /\ i' = i + 1
    /\ LET r == hw_read_package(packages[i + 1].tag, packages[i + 1].data)
       IN  IF r.exc # NoExc
           THEN Abort(r.exc) /\ UNCHANGED training
           ELSE training' = r.value /\ pc' = "main" /\ UNCHANGED exc
    /\ UNCHANGED <<rev, packages, info, stdout>>

\* main(training): info = Training.show_training_info(training);
\* print(InfoMessage.get_message(info)).  A str has no attribute duration.
Call_hw_main ==
    /\ rev = "homework"
    /\ pc = "main"
    /\ IF training.cls = "str"
       THEN /\ Abort(Raise("AttributeError", "duration", "", <<>>, "main"))
            /\ UNCHANGED <<info, stdout>>
       ELSE LET m == hw_show_training_info(training)
            IN  IF InfoRaised(m)
                THEN /\ Abort(Raise("ZeroDivisionError", "", "", <<>>, "main"))
                     /\ UNCHANGED <<info, stdout>>
                ELSE /\ info' = m
                     /\ \E line \in hw_get_message(m) :
                           stdout' = Append(stdout, line)
                     /\ pc' = "loop"
                     /\ UNCHANGED exc
    /\ UNCHANGED <<rev, packages, i, training>>

\* the batch is exhausted: the loop and the program end
LoopExit ==
    /\ pc = "loop"
    /\ i = Len(packages)
    /\ pc' = "done"
    /\ UNCHANGED <<rev, packages, i, training, info, stdout, exc>>

Next ==
    \/ Call_j_read_package
    \/ Call_j_main
    \/ Call_hw_read_package
    \/ Call_hw_main
    \/ LoopExit

Spec == Init /\ [][Next]_vars

SpecOne == InitOne /\ [][Next]_vars

\* ========================================================================
\* Properties
\* ========================================================================
RegisteredTags == {"RUN", "WLK", "SWM"}

\* the field count each registered tag expects
Arity(tag) == CASE tag = "RUN" -> 3 [] tag = "WLK" -> 4 [] tag = "SWM" -> 5

\* the record a well-formed pair is to become: the fields bound in order
ExpectedRecord(p) ==
    CASE p.tag = "RUN" ->
            [cls |-> "Running", action |-> p.data[1], duration |-> p.data[2],
             weight |-> p.data[3]]
      [] p.tag = "WLK" ->
            [cls |-> "SportsWalking", action |-> p.data[1],
             duration |-> p.data[2], weight |-> p.data[3],
             height |-> p.data[4]]
      [] p.tag = "SWM" ->
            [cls |-> "Swimming", action |-> p.data[1], duration |-> p.data[2],
             weight |-> p.data[3], length_pool |-> p.data[4],
             count_pool |-> p.data[5]]

UnknownTag(p) == p.tag \notin RegisteredTags

WrongArity(p) == p.tag \in RegisteredTags /\ Len(p.data) # Arity(p.tag)

WellFormed(p) == p.tag \in RegisteredTags /\ Len(p.data) = Arity(p.tag)

\* well-formed, but the summary divides by zero
ZeroDivisor(p) ==
    /\ WellFormed(p)
    /\ p.data[2] = 0 \/ (p.tag = "WLK" /\ p.data[4] = 0)

\* the pair the loop is at, and the one before it
Cur == packages[i]

\* the record the loop variable holds when read_package did not return one
Before == IF i = 1 THEN None ELSE ExpectedRecord(packages[i - 1])

\* main has printed the summary of the current pair
Summarised == i >= 1 /\ pc \in {"loop", "done"}

Terminated == pc \in {"done", "aborted"}

\* the rational n / d
Frac(n, d) == Norm(n, d)

\* C1: read_package with an unregistered tag fails with an unknown-type
\* error raised by read_package itself, whatever the data list; it
\* constructs no record, and no line is written for the pair.
C1_UnknownTagRaises ==
    (i >= 1 /\ UnknownTag(Cur)) =>
        /\ pc = "aborted"
        /\ exc.where = "read_package"
        /\ exc.msg = "TRAINING_ERROR"
        /\ training = Before
        /\ Len(stdout) = i - 1

\* what holds of C1 in both revisions: no workout record, no line, and the
\* loop never goes past the pair
UnknownTagNoOutput ==
    (i >= 1 /\ UnknownTag(Cur)) =>
        /\ training \in {Before, hw_sentinel}
        /\ Len(stdout) = i - 1
        /\ pc \in {"main", "aborted"}
        /\ rev = "j" => C1_UnknownTagRaises

\* C2: a registered tag with a data list of the wrong length fails in
\* read_package with an arity error (ValueError from PARAMETER_ERROR with
\* the expected and the given count in the validated revision, the call's
\* TypeError in the other) and constructs no record; with the right length
\* the record holds the fields bound positionally.
C2_ArityChecked ==
    (i >= 1 /\ Cur.tag \in RegisteredTags) =>
        IF Len(Cur.data) # Arity(Cur.tag)
        THEN /\ pc = "aborted"
             /\ exc.where = "read_package"
             /\ exc.nums = <<Arity(Cur.tag), Len(Cur.data)>>
             /\ IF rev = "j"
                THEN exc.type = "ValueError" /\ exc.msg = "PARAMETER_ERROR"
                ELSE exc.type = "TypeError"
             /\ training = Before
             /\ Len(stdout) = i - 1
        ELSE /\ training = ExpectedRecord(Cur)
             /\ exc.where # "read_package"

C2_Witness ==
    /\ rev = "j"
    /\ i = 2
    /\ packages[1] = [tag |-> "SWM", data |-> <<720, 1, 80, 25, 40>>]
    /\ packages[2] = [tag |-> "RUN", data |-> <<15000, 1>>]
    /\ pc = "aborted"
    /\ exc.msg = "PARAMETER_ERROR"
    /\ training.cls = "Swimming"
    /\ training.length_pool = 25
    /\ training.count_pool = 40

\* the least of a set of positions in the batch, Len + 1 when it is empty
FirstOf(hits) ==
    IF hits = {} THEN Len(packages) + 1
    ELSE CHOOSE n \in hits : \A m \in hits : n <= m

Invalid(p) == UnknownTag(p) \/ WrongArity(p)

Failing(p) == Invalid(p) \/ ZeroDivisor(p)

FirstInvalid == FirstOf({n \in 1..Len(packages) : Invalid(packages[n])})

FirstFailing == FirstOf({n \in 1..Len(packages) : Failing(packages[n])})

\* the lines the running revision can print for a well-formed pair
LinesOf(p) ==
    IF rev = "j"
    THEN j_get_message(j_show_training_info(ExpectedRecord(p)))
    ELSE hw_get_message(hw_show_training_info(ExpectedRecord(p)))

\* C3 as stated: when the program has ended, the output holds one line for
\* each pair before the first pair with an unknown tag or a wrong arity.
C3_Original == Terminated => Len(stdout) = FirstInvalid - 1

\* C3 as amended: the output is, in input order, one summary line for each
\* pair before the first failing pair, a failing pair being one with an
\* unknown tag, a wrong arity, or a zero divisor in its summary; nothing is
\* written for it or after it, and a batch without one gets a line per pair.
C3_LinesUpToFirstFailure ==
    LET k == FirstFailing
    IN  /\ Len(stdout) <= k - 1
        /\ \A n \in 1..Len(stdout) : stdout[n] \in LinesOf(packages[n])
        /\ Terminated => Len(stdout) = k - 1
        /\ pc = "done" => k = Len(packages) + 1
        /\ pc = "aborted" => (i = k /\ k <= Len(packages))

C3_Witness ==
    /\ pc = "aborted"
    /\ Len(packages) = 2
    /\ ~Failing(packages[1])
    /\ Invalid(packages[2])
    /\ Len(stdout) = 1

\* a batch of two well-formed pairs, both summarised
AllLinesWritten == pc = "done" /\ Len(packages) = 2 /\ Len(stdout) = 2

\* C9: a well-formed pair whose duration is zero, or a walking pair whose
\* height is zero, passes read_package and becomes a record; the failure is
\* the ZeroDivisionError raised in main while the summary is computed, no
\* line is written for the pair and the loop ends there.
C9_ZeroDivisionInMain ==
    (i >= 1 /\ ZeroDivisor(Cur)) =>
        /\ training = ExpectedRecord(Cur)
        /\ pc \in {"main", "aborted"}
        /\ pc = "main" => exc = NoExc
        /\ pc = "aborted" =>
              (exc.type = "ZeroDivisionError" /\ exc.where = "main")
        /\ Len(stdout) = i - 1

C9_Witness ==
    /\ pc = "aborted"
    /\ i = 2
    /\ Len(stdout) = 1
    /\ Cur.tag = "WLK"
    /\ Cur.data[2] # 0
    /\ training.cls = "SportsWalking"
    /\ training.height = 0
    /\ exc.type = "ZeroDivisionError"

\* the operations of the running revision
MeanSpeedOf(t) ==
    IF rev = "j" THEN j_get_mean_speed(t) ELSE hw_get_mean_speed(t)

CaloriesOf(t) ==
    IF rev = "j" THEN j_get_spent_calories(t) ELSE hw_get_spent_calories(t)

InfoOf(t) ==
    IF rev = "j" THEN j_show_training_info(t) ELSE hw_show_training_info(t)

\* C4: a swimming summary has mean speed length * laps / 1000 / duration and
\* calories (speed + 1.1) * 2 * weight = (length * laps + 1100 * duration)
\* * weight / (500 * duration); neither depends on action_count; the pair
\* ("SWM", [720, 1, 80, 25, 40]) gives speed 1 and 336 calories.
C4_Swimming ==
    (Summarised /\ Cur.tag = "SWM") =>
        LET D == Cur.data[2]
            w == Cur.data[3]
            L == Cur.data[4]
            c == Cur.data[5]
        IN  /\ info.speed = Frac(L * c, 1000 * D)
            /\ info.calories = Frac((L * c + 1100 * D) * w, 500 * D)
            /\ \A a \in ActionVals :
                  /\ MeanSpeedOf([training EXCEPT !.action = a]) = info.speed
                  /\ CaloriesOf([training EXCEPT !.action = a]) = info.calories
            /\ Cur.data = <<720, 1, 80, 25, 40>> =>
                  (info.speed = num(1) /\ info.calories = num(336))

C4_Witness ==
    /\ Summarised
    /\ Cur = [tag |-> "SWM", data |-> <<720, 1, 80, 25, 40>>]
    /\ info.speed = num(1)
    /\ info.calories = num(336)

\* C5: a summary's distance is action_count * step / 1000 with step 0.65
\* for running and walking and 1.38 for swimming; for running and walking
\* the mean speed is that distance divided by the duration; 15000 running
\* actions are 9.75 km.
C5_Distance ==
    Summarised =>
        LET a == Cur.data[1]
            D == Cur.data[2]
        IN  /\ Cur.tag = "SWM" => info.distance = Frac(a * 138, 100000)
            /\ Cur.tag \in {"RUN", "WLK"} =>
                  /\ info.distance = Frac(a * 65, 100000)
                  /\ info.speed = Frac(a * 65, 100000 * D)
            /\ (Cur.tag = "RUN" /\ a = 15000) => info.distance = Frac(975, 100)

C5_Witness ==
    /\ Summarised
    /\ Cur.tag = "SWM"
    /\ Cur.data[1] = 720
    /\ info.distance = Frac(9936, 10000)

\* C6: walking calories are (0.035 * weight + floor(speed^2 / height) *
\* 0.029 * weight) * duration * 60 = (35 + 29 * K) * weight * duration * 3
\* / 50 with K the floored quotient; K is 0 whenever speed^2 < height; the
\* pair ("WLK", [9000, 1, 75, 180]) gives distance and speed 5.85 and
\* 157.5 calories.
C6_Walking ==
    (Summarised /\ Cur.tag = "WLK") =>
        LET a == Cur.data[1]
            D == Cur.data[2]
            w == Cur.data[3]
            h == Cur.data[4]
            v == Frac(a * 13, 20000 * D)
            K == (v.n * v.n) \div (v.d * v.d * h)
        IN  /\ info.speed = v
            /\ info.calories = Frac((35 + 29 * K) * w * D * 3, 50)
            /\ v.n * v.n < v.d * v.d * h =>
                  info.calories = Frac(35 * w * D * 60, 1000)
            /\ Cur.data = <<9000, 1, 75, 180>> =>
                  /\ info.distance = Frac(585, 100)
                  /\ info.speed = Frac(585, 100)
                  /\ info.calories = Frac(1575, 10)

\* a walk fast enough for the floored quotient to count
C6_Witness ==
    /\ Summarised
    /\ Cur = [tag |-> "WLK", data |-> <<20000, 1, 75, 25>>]
    /\ info.calories = Frac((35 + 29 * 6) * 75 * 3, 50)

\* the walk of the entry point, where the quotient floors to 0
C6_WitnessExample ==
    /\ Summarised
    /\ Cur = [tag |-> "WLK", data |-> <<9000, 1, 75, 180>>]
    /\ info.calories = Frac(1575, 10)

\* C7: running calories are ((18 * speed) - 20) * weight / 1000 * duration
\* * 60 with speed = action_count * 0.65 / 1000 / duration, that is
\* (117 * action_count - 200000 * duration) * 3 * weight / 500000; the pair
\* ("RUN", [15000, 1, 75]) gives 9.75 km and 699.75 calories.
C7_Running ==
    (Summarised /\ Cur.tag = "RUN") =>
        LET a == Cur.data[1]
            D == Cur.data[2]
            w == Cur.data[3]
        IN  /\ info.speed = Frac(a * 65, 100000 * D)
            /\ info.calories = Frac((117 * a - 200000 * D) * 3 * w, 500000)
            /\ Cur.data = <<15000, 1, 75>> =>
                  /\ info.distance = Frac(975, 100)
                  /\ info.calories = Frac(69975, 100)

C7_Witness ==
    /\ Summarised
    /\ Cur = [tag |-> "RUN", data |-> <<15000, 1, 75>>]
    /\ info.distance = Frac(975, 100)
    /\ info.calories = Frac(69975, 100)

\* ------------------------------------------------------------------------
\* Reading a printed line back
\* ------------------------------------------------------------------------
IsDigit(ch) == ch \in 48..57

RECURSIVE ReadDigits(_, _, _)
ReadDigits(s, pos, acc) ==
    IF pos <= Len(s) /\ IsDigit(s[pos])
    THEN ReadDigits(s, pos + 1, acc * 10 + (s[pos] - 48))
    ELSE [v |-> acc, pos |-> pos]

\* an optional '-', one or more digits, '.', exactly three digits: the
\* thousandths read and the position after them
ReadFixed3(s, pos) ==
    LET neg == pos <= Len(s) /\ s[pos] = 45
        p1 == IF neg THEN pos + 1 ELSE pos
        ip == ReadDigits(s, p1, 0)
        ok == /\ ip.pos > p1
              /\ ip.pos + 3 <= Len(s)
              /\ s[ip.pos] = 46
              /\ \A k \in 1..3 : IsDigit(s[ip.pos + k])
    IN  [ok |-> ok, neg |-> neg, pos |-> ip.pos + 4,
         t |-> IF ok
               THEN ip.v * 1000 + (s[ip.pos + 1] - 48) * 100
                    + (s[ip.pos + 2] - 48) * 10 + (s[ip.pos + 3] - 48)
               ELSE 0]

StartsAt(s, pos, lit) ==
    /\ pos + Len(lit) - 1 <= Len(s)
    /\ SubSeq(s, pos, pos + Len(lit) - 1) = lit

\* the field read is x to the nearest thousandth, with x's sign
Shows(f, x) ==
    /\ f.ok
    /\ f.neg = (x.n < 0)
    /\ 2 * Abs(f.t * x.d - Abs(x.n) * 1000) <= x.d

\* s is T[1] label T[2] duration T[3] distance T[4] speed T[5] calories
\* T[6], each number with three decimals, and nothing else
MatchesTemplate(s, T, label, m) ==
    LET q1 == 1 + Len(T[1])
        q2 == q1 + Len(label)
        f1 == ReadFixed3(s, q2 + Len(T[2]))
        f2 == ReadFixed3(s, f1.pos + Len(T[3]))
        f3 == ReadFixed3(s, f2.pos + Len(T[4]))
        f4 == ReadFixed3(s, f3.pos + Len(T[5]))
    IN  /\ StartsAt(s, 1, T[1])
        /\ StartsAt(s, q1, label)
        /\ StartsAt(s, q2, T[2])
        /\ Shows(f1, num(m.duration))
        /\ StartsAt(s, f1.pos, T[3])
        /\ Shows(f2, m.distance)
        /\ StartsAt(s, f2.pos, T[4])
        /\ Shows(f3, m.speed)
        /\ StartsAt(s, f3.pos, T[5])
        /\ Shows(f4, m.calories)
        /\ StartsAt(s, f4.pos, T[6])
        /\ f4.pos + Len(T[6]) - 1 = Len(s)

\* "Workout type: ", "; Duration: ", " h; Distance: ", " km; Mean speed: ",
\* " km/h; Calories spent: ", "."
EnglishTemplate ==
    << <<87, 111, 114, 107, 111, 117, 116, 32, 116, 121, 112, 101, 58, 32>>,
       <<59, 32, 68, 117, 114, 97, 116, 105, 111, 110, 58, 32>>,
       <<32, 104, 59, 32, 68, 105, 115, 116, 97, 110, 99, 101, 58, 32>>,
       <<32, 107, 109, 59, 32, 77, 101, 97, 110, 32, 115, 112, 101, 101, 100,
         58, 32>>,
       <<32, 107, 109, 47, 104, 59, 32, 67, 97, 108, 111, 114, 105, 101, 115,
         32, 115, 112, 101, 110, 116, 58, 32>>,
       <<46>> >>

\* the Russian text of the source, in transliteration: "Tip trenirovki: ",
\* "; Dlitel'nost': ", " ch.; Distantsiya: ", " km; Sr. skorost': ",
\* " km/ch; Potracheno kkal: ", "."
RussianTemplate ==
    << <<1058, 1080, 1087, 32, 1090, 1088, 1077, 1085, 1080, 1088, 1086,
         1074, 1082, 1080, 58, 32>>,
       <<59, 32, 1044, 1083, 1080, 1090, 1077, 1083, 1100, 1085, 1086, 1089,
         1090, 1100, 58, 32>>,
       <<32, 1095, 46, 59, 32, 1044, 1080, 1089, 1090, 1072, 1085, 1094,
         1080, 1103, 58, 32>>,
       <<32, 1082, 1084, 59, 32, 1057, 1088, 46, 32, 1089, 1082, 1086, 1088,
         1086, 1089, 1090, 1100, 58, 32>>,
       <<32, 1082, 1084, 47, 1095, 59, 32, 1055, 1086, 1090, 1088, 1072,
         1095, 1077, 1085, 1086, 32, 1082, 1082, 1072, 1083, 58, 32>>,
       <<46>> >>

\* the type name each tag resolves to
LabelOf(tag) ==
    CASE tag = "RUN" -> <<82, 117, 110, 110, 105, 110, 103>>
      [] tag = "WLK" ->
            <<83, 112, 111, 114, 116, 115, 87, 97, 108, 107, 105, 110, 103>>
      [] tag = "SWM" -> <<83, 119, 105, 109, 109, 105, 110, 103>>

\* C8 as stated: the printed line is the English template "Workout type:
\* {label}; Duration: {:.3f} h; Distance: {:.3f} km; Mean speed: {:.3f}
\* km/h; Calories spent: {:.3f}." filled with the record's label, duration,
\* distance, mean speed and calories.
C8_Original ==
    Summarised =>
        MatchesTemplate(stdout[i], EnglishTemplate, LabelOf(Cur.tag), info)

\* C8 as amended: the same with the literal text of the source, which is
\* Russian; label, field order, three decimals and values as stated.
C8_Template ==
    Summarised =>
        /\ MatchesTemplate(stdout[i], RussianTemplate, LabelOf(Cur.tag), info)
        /\ info = InfoOf(ExpectedRecord(Cur))
        /\ info.training_type = LabelOf(Cur.tag)
        /\ info.duration = Cur.data[2]

\* a line whose four numbers all differ, one of them negative
C8_Witness ==
    /\ Summarised
    /\ Cur = [tag |-> "RUN", data |-> <<720, 2, 80>>]
    /\ MatchesTemplate(stdout[i], RussianTemplate, LabelOf("RUN"), info)
    /\ info.calories.n < 0
    /\ info.distance # info.speed

\* C10: on a well-formed pair without a zero divisor both revisions build
\* the same record, the same label, duration, distance, mean speed and
\* calories, and the same line; on an unknown tag the validated revision
\* raises in read_package while the other returns its sentinel string and
\* fails in main; on the other failing pairs both fail at the same place.
C10_RevisionsAgree ==
    i >= 1 =>
        LET hr == hw_read_package(Cur.tag, Cur.data)
            jr == j_read_package(Cur.tag, Cur.data)
            hm == hw_show_training_info(hr.value)
            jm == j_show_training_info(jr.value)
        IN  /\ (WellFormed(Cur) /\ ~ZeroDivisor(Cur)) =>
                  /\ hr.exc = NoExc /\ jr.exc = NoExc
                  /\ hr.value = jr.value
                  /\ training = hr.value
                  /\ hm = jm
                  /\ ~InfoRaised(hm)
                  /\ hw_get_message(hm) = j_get_message(jm)
                  /\ pc # "aborted"
                  /\ Summarised =>
                        (info = jm /\ info = hm
                         /\ stdout[i] \in hw_get_message(hm)
                         /\ stdout[i] \in j_get_message(jm))
            /\ UnknownTag(Cur) =>
                  IF rev = "j"
                  THEN /\ pc = "aborted"
                       /\ exc.type = "ValueError"
                       /\ exc.where = "read_package"
                  ELSE /\ training = hw_sentinel
                       /\ \/ pc = "main" /\ exc = NoExc
                          \/ /\ pc = "aborted"
                             /\ exc.type = "AttributeError"
                             /\ exc.where = "main"
            /\ WrongArity(Cur) =>
                  (pc = "aborted" /\ exc.where = "read_package")
            /\ ZeroDivisor(Cur) =>
                  /\ training = hr.value /\ training = jr.value
                  /\ pc = "aborted" =>
                        (exc.type = "ZeroDivisionError" /\ exc.where = "main")

C10_Witness ==
    /\ Summarised
    /\ rev = "homework"
    /\ Cur = [tag |-> "WLK", data |-> <<20000, 2, 80, 25>>]
    /\ stdout[i] \in j_get_message(j_show_training_info(ExpectedRecord(Cur)))

====
